---- MODULE Spec2Model ----
(***************************************************************************)
(* Model of the /media-stream WebSocket bridge of index.js: one session    *)
(* per telephony connection, relaying audio between the telephony socket   *)
(* (`connection`) and the OpenAI realtime socket (`openAiWs`).             *)
(*                                                                         *)
(* Per-session state is the closure state of the route handler (lines      *)
(* 67-71) plus the two sockets.  Messages sent on either socket and the    *)
(* persistence calls are recorded as sequences so that ordering and        *)
(* counting properties can be stated.                                      *)
(***************************************************************************)
EXTENDS Integers, Sequences, FiniteSets, TLC

\* ------------------------------------------------------------------ bounds
MaxEvents == 3      \* inbound messages handled per session
MaxTs == 2          \* largest media timestamp carried by a frame
MaxEventsMulti == 1 \* inbound messages per session when two sessions run

\* ------------------------------------------------------- value domains
Sessions == {1, 2}                 \* ids of concurrently served connections
Null == 0 - 1                      \* JS null / undefined in a numeric slot
NullId == "null"                   \* JS null / undefined in a string slot
Timestamps == 0..MaxTs
StreamSids == {"CA1", "CA2"}
ItemIds == {"X", "Y"}
AudioPayloads == {"a", NullId}      \* media.payload; NullId when the field is missing
Deltas == {"d", ""}                \* response.delta; "" is falsy
DonePayloads == {"P", "Q"}

VARIABLES
    active,                        \* sessions that exist in this run
    crashed,                       \* the Node process died of an uncaught error
    connState,                     \* telephony socket: "open" | "closed"
    readyState,                    \* openAiWs.readyState
    openPc,                        \* position of the async 'open' handler
    streamSid,
    latestMediaTimestamp,
    responseStartTimestampTwilio,
    markQueue,
    lastAssistantItem,
    handlers,                      \* async 'message' handler instances awaiting persistence
    mediaIn,                       \* payloads of the media frames received, in order
    aiOut,                         \* messages sent on openAiWs, in order
    twilioOut,                     \* messages sent on connection, in order
    persistCalls,                  \* supabase inserts issued, in order
    closeCalls,                    \* number of openAiWs.close() calls
    nErrors,                       \* console.error calls made by the catch blocks
    nTwilio,                       \* telephony messages handled so far
    nAi                            \* AI messages handled so far

vars == <<active, crashed, connState, readyState, openPc, streamSid,
          latestMediaTimestamp, responseStartTimestampTwilio, markQueue,
          lastAssistantItem, handlers, mediaIn, aiOut, twilioOut, persistCalls,
          closeCalls, nErrors, nTwilio, nAi>>

sessionVars == <<streamSid, latestMediaTimestamp, responseStartTimestampTwilio,
                 markQueue, lastAssistantItem>>

\* --------------------------------------------------------------- helpers
\* JS truthiness of a numeric-or-null slot: `!x` holds for null, undefined, 0.
Falsy(x) == x = Null \/ x = 0

\* JS truthiness of a string-or-null slot: `!x` holds for null, undefined, "".
FalsyId(x) == x = NullId \/ x = ""

SessionUpdate == [type |-> "session.update", audio |-> ""]

AppendMsg(p) == [type |-> "input_audio_buffer.append", audio |-> p]

AudioDeltaMsg(sid, delta) == [event |-> "media", streamSid |-> sid, payload |-> delta]

\* ws `send` outside OPEN (after CONNECTING) drops the data without throwing.
ConnectionSend(s, msg) ==
    IF connState[s] = "open" THEN Append(twilioOut[s], msg) ELSE twilioOut[s]

\* A send that does not look at readyState.
OpenAiSend_Unguarded(s, msg) == Append(aiOut[s], msg)

OpenAiSend(s, msg) ==
    IF readyState[s] = "OPEN" THEN Append(aiOut[s], msg) ELSE aiOut[s]

\* The stub fetchInstructionsFromSupabase returns an already-resolved promise,
\* so the continuation of the 'open' handler is a microtask: it runs before
\* any other socket callback.
\* A lookup that takes a network round trip: other callbacks run meanwhile.
MacrotaskMayRun_SlowLookup == TRUE

MacrotaskMayRun == \A s \in Sessions : openPc[s] # "await"

Running == ~crashed /\ MacrotaskMayRun

EventBudget == IF Cardinality(active) > 1 THEN MaxEventsMulti ELSE MaxEvents

CanCount(s) == nTwilio[s] + nAi[s] < EventBudget

TwilioDelivers(s) == s \in active /\ Running /\ connState[s] = "open" /\ CanCount(s)

\* A 'message' listener that is not called again until the previous call's
\* promise has settled.
OpenAiDelivers_AfterPersistence(s) ==
    /\ s \in active /\ Running /\ CanCount(s)
    /\ readyState[s] \in {"OPEN", "CLOSING"}
    /\ openPc[s] = "done"
    /\ \A i \in 1..Len(handlers[s]) : handlers[s][i].pc \notin {"store", "update"}

\* ws keeps emitting 'message' after a local close() until the peer closes.
OpenAiDelivers(s) ==
    /\ s \in active /\ Running /\ CanCount(s)
    /\ readyState[s] \in {"OPEN", "CLOSING"}
    /\ openPc[s] = "done"

CountTwilio(s) == nTwilio' = [nTwilio EXCEPT ![s] = @ + 1] /\ UNCHANGED nAi

CountAi(s) == nAi' = [nAi EXCEPT ![s] = @ + 1] /\ UNCHANGED nTwilio

\* ------------------------------------------------------------------ Init
InitWith(A) ==
    /\ active = A
    /\ crashed = FALSE
    /\ connState = [s \in Sessions |-> "open"]
    /\ readyState = [s \in Sessions |-> "CONNECTING"]
    /\ openPc = [s \in Sessions |-> "idle"]
    /\ streamSid = [s \in Sessions |-> NullId]
    /\ latestMediaTimestamp = [s \in Sessions |-> 0]
    /\ responseStartTimestampTwilio = [s \in Sessions |-> Null]
    /\ markQueue = [s \in Sessions |-> <<>>]
    /\ lastAssistantItem = [s \in Sessions |-> NullId]
    /\ handlers = [s \in Sessions |-> <<>>]
    /\ mediaIn = [s \in Sessions |-> <<>>]
    /\ aiOut = [s \in Sessions |-> <<>>]
    /\ twilioOut = [s \in Sessions |-> <<>>]
    /\ persistCalls = [s \in Sessions |-> <<>>]
    /\ closeCalls = [s \in Sessions |-> 0]
    /\ nErrors = [s \in Sessions |-> 0]
    /\ nTwilio = [s \in Sessions |-> 0]
    /\ nAi = [s \in Sessions |-> 0]

Init == InitWith({1})

\* ------------------------------------------------- openAiWs lifecycle
\* 'open' is emitted with readyState already OPEN; the handler runs up to
\* its await.
OpenAiOpen(s) ==
    /\ s \in active /\ Running
    /\ readyState[s] = "CONNECTING"
    /\ readyState' = [readyState EXCEPT ![s] = "OPEN"]
    /\ openPc' = [openPc EXCEPT ![s] = "await"]
    /\ UNCHANGED <<active, mediaIn, crashed, connState, sessionVars, handlers,
                   aiOut, twilioOut, persistCalls, closeCalls, nErrors,
                   nTwilio, nAi>>

\* Continuation of the 'open' handler: build sessionUpdate and send it.
OpenAiOpenResume(s) ==
    /\ s \in active /\ ~crashed
    /\ openPc[s] = "await"
    /\ aiOut' = [aiOut EXCEPT ![s] = OpenAiSend(s, SessionUpdate)]
    /\ openPc' = [openPc EXCEPT ![s] = "done"]
    /\ UNCHANGED <<active, mediaIn, crashed, connState, readyState,
                   sessionVars, handlers, twilioOut, persistCalls, closeCalls,
                   nErrors, nTwilio, nAi>>

\* The handshake never completed: close() was called while CONNECTING.
HandshakeAborted(s) == readyState[s] = "CLOSING" /\ openPc[s] = "idle"

\* The connection fails to establish, or its handshake was aborted by close():
\* ws emits 'error'; openAiWs has no 'error' listener, so the EventEmitter
\* throws and the process exits.
OpenAiError(s) ==
    /\ s \in active /\ Running
    /\ readyState[s] = "CONNECTING" \/ HandshakeAborted(s)
    /\ crashed' = TRUE
    /\ readyState' = [readyState EXCEPT ![s] = "CLOSED"]
    /\ UNCHANGED <<active, connState, openPc, sessionVars, handlers, mediaIn,
                   aiOut, twilioOut, persistCalls, closeCalls, nErrors,
                   nTwilio, nAi>>

\* An established AI socket drops or finishes closing: ws emits 'close'; no
\* listener is registered on openAiWs, so nothing else happens.
OpenAiDrop(s) ==
    /\ s \in active /\ Running
    /\ readyState[s] \in {"OPEN", "CLOSING"}
    /\ openPc[s] = "done"
    /\ readyState' = [readyState EXCEPT ![s] = "CLOSED"]
    /\ UNCHANGED <<active, crashed, connState, openPc, sessionVars, handlers,
                   mediaIn, aiOut, twilioOut, persistCalls, closeCalls,
                   nErrors, nTwilio, nAi>>

\* ------------------------------------------- connection.on('message')
\* data.event === 'media': record the timestamp, append the payload if the AI
\* socket is OPEN.  ts = Null models a frame without media.timestamp.
TwilioMedia(s, ts, p) ==
    /\ TwilioDelivers(s)
    /\ latestMediaTimestamp' = [latestMediaTimestamp EXCEPT ![s] = ts]
    /\ aiOut' = [aiOut EXCEPT ![s] = OpenAiSend(s, AppendMsg(p))]
    /\ mediaIn' = [mediaIn EXCEPT ![s] = Append(@, p)]
    /\ CountTwilio(s)
    /\ UNCHANGED <<active, crashed, connState, readyState, openPc, streamSid,
                   responseStartTimestampTwilio, markQueue, lastAssistantItem,
                   handlers, twilioOut, persistCalls, closeCalls, nErrors>>

\* data.event === 'start'
TwilioStart(s, sid) ==
    /\ TwilioDelivers(s)
    /\ streamSid' = [streamSid EXCEPT ![s] = sid]
    /\ CountTwilio(s)
    /\ UNCHANGED <<active, mediaIn, crashed, connState, readyState, openPc,
                   latestMediaTimestamp, responseStartTimestampTwilio,
                   markQueue, lastAssistantItem, handlers, aiOut, twilioOut,
                   persistCalls, closeCalls, nErrors>>

\* Any other event ('mark', 'connected', 'stop'): no branch matches.
TwilioOther(s, ev) ==
    /\ TwilioDelivers(s)
    /\ CountTwilio(s)
    /\ UNCHANGED <<active, mediaIn, crashed, connState, readyState, openPc,
                   sessionVars, handlers, aiOut, twilioOut, persistCalls,
                   closeCalls, nErrors>>

\* JSON.parse throws, or a 'media' / 'start' event lacks its object so the
\* property read throws TypeError: the catch block logs it.
TwilioMalformed(s) ==
    /\ TwilioDelivers(s)
    /\ nErrors' = [nErrors EXCEPT ![s] = @ + 1]
    /\ CountTwilio(s)
    /\ UNCHANGED <<active, mediaIn, crashed, connState, readyState, openPc,
                   sessionVars, handlers, aiOut, twilioOut, persistCalls,
                   closeCalls>>

\* --------------------------------------------- connection.on('close')
\* ws close(): CONNECTING and OPEN become CLOSING, otherwise no change.
CloseReadyState(r) == IF r \in {"CONNECTING", "OPEN"} THEN "CLOSING" ELSE r

\* The handler without its openAiWs.close() call.
TwilioClose_NoAiClose(s) ==
    /\ s \in active /\ Running
    /\ connState[s] = "open"
    /\ connState' = [connState EXCEPT ![s] = "closed"]
    /\ UNCHANGED <<active, mediaIn, crashed, readyState, closeCalls, openPc,
                   sessionVars, handlers, aiOut, twilioOut, persistCalls,
                   nErrors, nTwilio, nAi>>

TwilioClose(s) ==
    /\ s \in active /\ Running
    /\ connState[s] = "open"
    /\ connState' = [connState EXCEPT ![s] = "closed"]
    /\ closeCalls' = [closeCalls EXCEPT ![s] = @ + 1]
    /\ readyState' = [readyState EXCEPT ![s] = CloseReadyState(@)]
    /\ UNCHANGED <<active, mediaIn, crashed, openPc, sessionVars, handlers,
                   aiOut, twilioOut, persistCalls, nErrors, nTwilio, nAi>>

\* ----------------------------------------------- openAiWs.on('message')
\* response.type === 'response.audio.delta' && response.delta.  item is
\* NullId when the event carries no item_id.  sendMark is not defined
\* anywhere in the file, so the call throws ReferenceError after the state
\* updates; the catch block logs it: no mark is sent, markQueue is untouched.
AiAudioDelta(s, delta, item) ==
    /\ OpenAiDelivers(s)
    /\ IF delta # ""
         THEN /\ twilioOut' = [twilioOut EXCEPT ![s] =
                        ConnectionSend(s, AudioDeltaMsg(streamSid[s], delta))]
              /\ responseStartTimestampTwilio' =
                    [responseStartTimestampTwilio EXCEPT ![s] =
                        IF Falsy(@) THEN latestMediaTimestamp[s] ELSE @]
              /\ lastAssistantItem' = [lastAssistantItem EXCEPT ![s] =
                        IF ~FalsyId(item) THEN item ELSE @]
              /\ nErrors' = [nErrors EXCEPT ![s] = @ + 1]
         ELSE UNCHANGED <<twilioOut, responseStartTimestampTwilio,
                          lastAssistantItem, nErrors>>
    /\ CountAi(s)
    /\ UNCHANGED <<active, mediaIn, crashed, connState, readyState, openPc,
                   streamSid, latestMediaTimestamp, markQueue, handlers,
                   aiOut, persistCalls, closeCalls>>

TranscriptCall(h, P) == [table |-> "call_transcripts", payload |-> P, h |-> h]

UpdateCall(h, P) == [table |-> "call_updates", payload |-> P, h |-> h]

\* response.type === 'response.content.done': storeTranscriptionToSupabase is
\* called and the handler suspends on its insert.
AiResponseDone(s, P) ==
    /\ OpenAiDelivers(s)
    /\ persistCalls' = [persistCalls EXCEPT ![s] =
                            Append(@, TranscriptCall(Len(handlers[s]) + 1, P))]
    /\ handlers' = [handlers EXCEPT ![s] = Append(@, [payload |-> P, pc |-> "store"])]
    /\ CountAi(s)
    /\ UNCHANGED <<active, mediaIn, crashed, connState, readyState, openPc,
                   sessionVars, aiOut, twilioOut, closeCalls, nErrors>>

\* Any other event type, 'input_audio_buffer.speech_started' included: neither
\* branch matches.
AiOther(s, type) ==
    /\ OpenAiDelivers(s)
    /\ CountAi(s)
    /\ UNCHANGED <<active, mediaIn, crashed, connState, readyState, openPc,
                   sessionVars, handlers, aiOut, twilioOut, persistCalls,
                   closeCalls, nErrors>>

\* JSON.parse throws: the catch block logs it.
AiMalformed(s) ==
    /\ OpenAiDelivers(s)
    /\ nErrors' = [nErrors EXCEPT ![s] = @ + 1]
    /\ CountAi(s)
    /\ UNCHANGED <<active, mediaIn, crashed, connState, readyState, openPc,
                   sessionVars, handlers, aiOut, twilioOut, persistCalls,
                   closeCalls>>

\* A handler that resets the response anchors once the transcript insert has
\* resolved, after its await.
StoreSettles_ClearsState(s, i, ok) ==
    /\ s \in active /\ Running
    /\ i \in 1..Len(handlers[s])
    /\ handlers[s][i].pc = "store"
    /\ IF ok
         THEN /\ persistCalls' = [persistCalls EXCEPT ![s] =
                        Append(@, UpdateCall(i, handlers[s][i].payload))]
              /\ handlers' = [handlers EXCEPT ![s][i].pc = "update"]
              /\ responseStartTimestampTwilio' =
                    [responseStartTimestampTwilio EXCEPT ![s] = Null]
              /\ lastAssistantItem' = [lastAssistantItem EXCEPT ![s] = NullId]
              /\ UNCHANGED nErrors
         ELSE /\ handlers' = [handlers EXCEPT ![s][i].pc = "failed"]
              /\ nErrors' = [nErrors EXCEPT ![s] = @ + 1]
              /\ UNCHANGED <<persistCalls, responseStartTimestampTwilio,
                             lastAssistantItem>>
    /\ UNCHANGED <<active, mediaIn, crashed, connState, readyState, openPc,
                   streamSid, latestMediaTimestamp, markQueue, aiOut,
                   twilioOut, closeCalls, nTwilio, nAi>>

\* The transcript insert settles.  Resolved: postRealtimeUpdateToSupabase is
\* called and the handler suspends again.  Rejected: the await throws into the
\* catch block, which logs; the update call is skipped.
StoreSettles(s, i, ok) ==
    /\ s \in active /\ Running
    /\ i \in 1..Len(handlers[s])
    /\ handlers[s][i].pc = "store"
    /\ IF ok
         THEN /\ persistCalls' = [persistCalls EXCEPT ![s] =
                        Append(@, UpdateCall(i, handlers[s][i].payload))]
              /\ handlers' = [handlers EXCEPT ![s][i].pc = "update"]
              /\ UNCHANGED nErrors
         ELSE /\ handlers' = [handlers EXCEPT ![s][i].pc = "failed"]
              /\ nErrors' = [nErrors EXCEPT ![s] = @ + 1]
              /\ UNCHANGED persistCalls
    /\ UNCHANGED <<active, mediaIn, crashed, connState, readyState, openPc,
                   sessionVars, aiOut, twilioOut, closeCalls, nTwilio, nAi>>

\* The update insert settles and the handler returns (or logs the rejection).
UpdateSettles(s, i, ok) ==
    /\ s \in active /\ Running
    /\ i \in 1..Len(handlers[s])
    /\ handlers[s][i].pc = "update"
    /\ handlers' = [handlers EXCEPT ![s][i].pc = IF ok THEN "done" ELSE "failed"]
    /\ nErrors' = [nErrors EXCEPT ![s] = IF ok THEN @ ELSE @ + 1]
    /\ UNCHANGED <<active, mediaIn, crashed, connState, readyState, openPc,
                   sessionVars, aiOut, twilioOut, persistCalls, closeCalls,
                   nTwilio, nAi>>

\* ------------------------------------------------------------------ Next
TwilioOtherEvents == {"mark"}

AiOtherEvents == {"input_audio_buffer.speech_started", "session.created"}

Next ==
    \E s \in Sessions :
        \/ OpenAiOpen(s)
        \/ OpenAiOpenResume(s)
        \/ OpenAiError(s)
        \/ OpenAiDrop(s)
        \/ \E ts \in Timestamps \cup {Null}, p \in AudioPayloads : TwilioMedia(s, ts, p)
        \/ \E sid \in StreamSids : TwilioStart(s, sid)
        \/ \E ev \in TwilioOtherEvents : TwilioOther(s, ev)
        \/ TwilioMalformed(s)
        \/ TwilioClose(s)
        \/ \E type \in AiOtherEvents : AiOther(s, type)
        \/ \E delta \in Deltas, item \in ItemIds \cup {NullId} : AiAudioDelta(s, delta, item)
        \/ \E P \in DonePayloads : AiResponseDone(s, P)
        \/ AiMalformed(s)
        \/ \E i \in 1..MaxEvents, ok \in BOOLEAN : StoreSettles(s, i, ok)
        \/ \E i \in 1..MaxEvents, ok \in BOOLEAN : UpdateSettles(s, i, ok)

Spec == Init /\ [][Next]_vars

\* Two connections served by the same process.
InitMulti == InitWith(Sessions)

SpecMulti == InitMulti /\ [][Next]_vars

\* The continuation of an await runs once its promise has settled; the stub
\* lookup settles at once, and the persistence client settles every request.
Fairness ==
    /\ WF_vars(\E s \in Sessions : OpenAiOpenResume(s))
    /\ WF_vars(\E s \in Sessions, i \in 1..MaxEvents, ok \in BOOLEAN : StoreSettles(s, i, ok))
    /\ WF_vars(\E s \in Sessions, i \in 1..MaxEvents, ok \in BOOLEAN : UpdateSettles(s, i, ok))

FairSpec == Spec /\ Fairness

TypeOK ==
    /\ active \subseteq Sessions
    /\ crashed \in BOOLEAN
    /\ \A s \in Sessions :
        /\ connState[s] \in {"open", "closed"}
        /\ readyState[s] \in {"CONNECTING", "OPEN", "CLOSING", "CLOSED"}
        /\ openPc[s] \in {"idle", "await", "done"}
        /\ streamSid[s] \in StreamSids \cup {NullId}
        /\ latestMediaTimestamp[s] \in Timestamps \cup {Null}
        /\ responseStartTimestampTwilio[s] \in Timestamps \cup {Null}
        /\ lastAssistantItem[s] \in ItemIds \cup {NullId}
        /\ nTwilio[s] + nAi[s] \in 0..MaxEvents

\* =================================================================
\* Properties
\* =================================================================

\* A response is in flight when both anchors are populated.
InFlight(s) == responseStartTimestampTwilio[s] # Null /\ lastAssistantItem[s] # NullId

Idle(s) == responseStartTimestampTwilio[s] = Null /\ lastAssistantItem[s] = NullId

\* The truncate instruction of the AI realtime channel.
TruncateMsg(item, ms) ==
    [type |-> "conversation.item.truncate", audio |-> "", item_id |-> item,
     audio_end_ms |-> ms]

\* C1: in every reachable state, responseStartTimestamp is set if and only if
\* lastAssistantItemId is set.
C1_StartSetIffItemSet ==
    \A s \in active :
        (responseStartTimestampTwilio[s] # Null) <=> (lastAssistantItem[s] # NullId)

\* C2: a SpeechStarted event handled while a response is in flight, anchored
\* at T0 with latestMediaTimestamp = T1 >= T0, sends exactly one truncate
\* naming lastAssistantItemId with offset T1 - T0.
C2_SpeechStartedTruncates ==
    [][\A s \in active :
        ( /\ AiOther(s, "input_audio_buffer.speech_started")
          /\ InFlight(s)
          /\ latestMediaTimestamp[s] >= responseStartTimestampTwilio[s] )
        => aiOut'[s] = Append(aiOut[s],
                TruncateMsg(lastAssistantItem[s],
                    latestMediaTimestamp[s] - responseStartTimestampTwilio[s]))]_vars

\* C3: after a ResponseDone event has been processed the session is Idle:
\* both responseStartTimestamp and lastAssistantItemId are unset.
C3_IdleAfterResponseDone ==
    [][\A s \in active :
        (\E P \in DonePayloads : AiResponseDone(s, P)) => Idle(s)']_vars

\* C4: latestMediaTimestamp never decreases from one state to the next.
C4_TimestampMonotonic ==
    [][\A s \in active :
        (latestMediaTimestamp[s] # Null /\ latestMediaTimestamp'[s] # Null)
        => latestMediaTimestamp'[s] >= latestMediaTimestamp[s]]_vars

\* C5: every AI-side failure (the connection fails to establish, or drops
\* without the bridge having closed it) is eventually followed by the
\* telephony connection being closed.
C5_AiFailureClosesTelephony ==
    \A s \in Sessions :
        (s \in active /\ readyState[s] = "CLOSED" /\ closeCalls[s] = 0)
            ~> (connState[s] = "closed" \/ crashed)

\* C6: session.update precedes every input_audio_buffer.append sent to the AI.
C6_SessionUpdateBeforeAppend ==
    \A s \in active :
        \A i \in 1..Len(aiOut[s]) :
            aiOut[s][i].type = "input_audio_buffer.append"
                => \E j \in 1..(i - 1) : aiOut[s][j] = SessionUpdate

\* A frame arrived while the AI socket was still connecting and was not
\* appended; a later frame was appended after session.update.
C6_Witness ==
    /\ readyState[1] = "OPEN"
    /\ mediaIn[1] = <<NullId, "a">>
    /\ aiOut[1] = <<SessionUpdate, AppendMsg("a")>>

\* C7: once the telephony connection has closed, in any session state, the AI
\* connection has been closed, and close() is called at most once per session.
C7_AiClosedExactlyOnce ==
    \A s \in active :
        /\ closeCalls[s] <= 1
        /\ connState[s] = "closed"
            => closeCalls[s] = 1 /\ readyState[s] \in {"CLOSING", "CLOSED"}

\* The telephony connection closed while a response was in flight.
C7_Witness ==
    /\ connState[1] = "closed"
    /\ InFlight(1)
    /\ closeCalls[1] = 1

\* C8: after the telephony connection has closed, no step changes the session
\* state, sends to the telephony side or issues a persistence call.
C8_NoProcessingAfterClose ==
    [][\A s \in active :
        connState[s] = "closed"
        => UNCHANGED <<streamSid[s], latestMediaTimestamp[s],
                       responseStartTimestampTwilio[s], markQueue[s],
                       lastAssistantItem[s], twilioOut[s], persistCalls[s]>>]_vars

CallsOf(s, call) == {k \in 1..Len(persistCalls[s]) : persistCalls[s][k] = call}

\* C9: every ResponseDone whose handler has finished issued exactly one
\* transcript-store call and exactly one update-store call, both carrying its
\* payload; every persistence call belongs to a ResponseDone.
C9_OneStoreOneUpdatePerDone ==
    \A s \in active :
        /\ \A i \in 1..Len(handlers[s]) :
            handlers[s][i].pc \in {"done", "failed"}
            => /\ Cardinality(CallsOf(s, TranscriptCall(i, handlers[s][i].payload))) = 1
               /\ Cardinality(CallsOf(s, UpdateCall(i, handlers[s][i].payload))) = 1
        /\ \A k \in 1..Len(persistCalls[s]) :
            /\ persistCalls[s][k].h \in 1..Len(handlers[s])
            /\ persistCalls[s][k].payload = handlers[s][persistCalls[s][k].h].payload

SessionView(b) ==
    <<streamSid[b], latestMediaTimestamp[b], responseStartTimestampTwilio[b],
      markQueue[b], lastAssistantItem[b], connState[b], readyState[b],
      openPc[b], handlers[b], aiOut[b], twilioOut[b], persistCalls[b]>>

\* An error event in session a: its AI connection fails, a message does not
\* parse, or a persistence call rejects.
ErrorStep(a) ==
    \/ OpenAiError(a)
    \/ TwilioMalformed(a)
    \/ AiMalformed(a)
    \/ \E i \in 1..MaxEvents : StoreSettles(a, i, FALSE) \/ UpdateSettles(a, i, FALSE)

\* C11: an error event in session A leaves every other session's state and
\* connections unchanged, and the other session goes on being served.
C11_ErrorsAreIsolated ==
    [][\A a \in active, b \in active :
        (a # b /\ ErrorStep(a)) => (UNCHANGED SessionView(b) /\ ~crashed')]_vars

\* C12: once streamId has been set it never changes, whatever telephony
\* events arrive later.
C12_StreamSidImmutable ==
    [][\A s \in active :
        streamSid[s] # NullId => streamSid'[s] = streamSid[s]]_vars

IsAppend(m) == m.type = "input_audio_buffer.append"

\* The payloads appended to the AI connection, in order.
Appended(s) ==
    LET apps == SelectSeq(aiOut[s], IsAppend)
    IN  [i \in 1..Len(apps) |-> apps[i].audio]

\* C13 (as stated): every media frame received has been appended to the AI
\* connection, in arrival order; none is dropped.
C13_EveryFrameAppended ==
    \A s \in active : Appended(s) = mediaIn[s]

\* C13 (amended): a media frame received while the AI socket is OPEN is
\* appended, after the earlier ones; a frame received in any other socket
\* state is not appended; whether a response is in flight plays no part.
C13_FrameAppendedIffOpen ==
    [][\A s \in active :
        Len(mediaIn'[s]) = Len(mediaIn[s]) + 1
        => aiOut'[s] =
            IF readyState[s] = "OPEN"
                THEN Append(aiOut[s], AppendMsg(mediaIn'[s][Len(mediaIn'[s])]))
                ELSE aiOut[s]]_vars

\* One frame was dropped while connecting; two more were appended in order
\* once the socket was open.
C13_Witness ==
    /\ mediaIn[1] = <<"a", NullId, "a">>
    /\ Appended(1) = <<NullId, "a">>
    /\ latestMediaTimestamp[1] = 2

\* A 'message' handler of session s is suspended on a persistence call.
Pending(s) == \E i \in 1..Len(handlers[s]) : handlers[s][i].pc \in {"store", "update"}

\* C14: while a persistence call issued for a ResponseDone is pending, and
\* both sockets are open, an AudioDelta can be handled and is forwarded to the
\* telephony side, and a media frame can be handled and is appended to the AI.
C14_PersistenceDoesNotBlock ==
    \A s \in active :
        ( /\ Pending(s) /\ ~crashed /\ MacrotaskMayRun /\ CanCount(s)
          /\ connState[s] = "open" /\ readyState[s] = "OPEN" )
        => /\ ENABLED ( /\ AiAudioDelta(s, "d", "X")
                        /\ twilioOut'[s] =
                            Append(twilioOut[s], AudioDeltaMsg(streamSid[s], "d")) )
           /\ ENABLED ( /\ TwilioMedia(s, 0, "a")
                        /\ aiOut'[s] = Append(aiOut[s], AppendMsg("a")) )

\* The transcript insert is still pending; meanwhile audio has been relayed in
\* both directions.
C14_Witness ==
    /\ Len(handlers[1]) = 1
    /\ handlers[1][1].pc = "store"
    /\ Len(twilioOut[1]) = 1
    /\ Appended(1) = <<"a">>

\* C15: processing one AudioDelta sends exactly one media message followed by
\* exactly one mark message to the telephony side, enqueues exactly one token
\* on markQueue, and raises no error.
C15_DeltaSendsMediaAndMark ==
    [][\A s \in active :
        ((\E item \in ItemIds \cup {NullId} : AiAudioDelta(s, "d", item))
            /\ connState[s] = "open")
        => LET n == Len(twilioOut[s])
           IN  /\ Len(twilioOut'[s]) = n + 2
               /\ twilioOut'[s][n + 1] = AudioDeltaMsg(streamSid[s], "d")
               /\ twilioOut'[s][n + 2].event = "mark"
               /\ Len(markQueue'[s]) = Len(markQueue[s]) + 1
               /\ nErrors'[s] = nErrors[s]]_vars

\* C16: while a response is in flight, a later AudioDelta does not change
\* responseStartTimestamp, whatever the anchor value (0 included).
C16_AnchorKeptWhileInFlight ==
    [][\A s \in active :
        ((\E d \in Deltas, item \in ItemIds \cup {NullId} : AiAudioDelta(s, d, item))
            /\ InFlight(s))
        => responseStartTimestampTwilio'[s] = responseStartTimestampTwilio[s]]_vars

\* A step in which session s starts handling an inbound message.
EventStep(s) == nTwilio'[s] + nAi'[s] > nTwilio[s] + nAi[s]

\* A step in which a suspended 'message' handler of session s resumes.
ResumeStep(s) == Len(handlers'[s]) = Len(handlers[s]) /\ handlers'[s] # handlers[s]

C18_WritesAreIndependent ==
    \A s \in active :
        \A i \in 1..Len(handlers[s]) :
            /\ Cardinality(CallsOf(s, TranscriptCall(i, handlers[s][i].payload))) = 1
            /\ handlers[s][i].pc # "store"
                => Cardinality(CallsOf(s, UpdateCall(i, handlers[s][i].payload))) = 1

\* A media event that lacks its timestamp or its payload.
IncompleteMedia(s) ==
    \E ts \in Timestamps \cup {Null}, p \in AudioPayloads :
        (ts = Null \/ p = NullId) /\ TwilioMedia(s, ts, p)

\* C19: a malformed inbound message on either channel leaves the session
\* state unchanged and causes nothing to be sent on either connection.
C19_MalformedIsDropped ==
    [][\A s \in active :
        (TwilioMalformed(s) \/ AiMalformed(s) \/ IncompleteMedia(s))
        => UNCHANGED <<streamSid[s], latestMediaTimestamp[s],
                       responseStartTimestampTwilio[s], markQueue[s],
                       lastAssistantItem[s], aiOut[s], twilioOut[s]>>]_vars

\* The clear instruction of the telephony channel.
ClearMsg(sid) == [event |-> "clear", streamSid |-> sid]

\* C20: a SpeechStarted event handled while a response is in flight sends a
\* clear to the telephony side and leaves markQueue empty.
C20_InterruptionClears ==
    [][\A s \in active :
        ( /\ AiOther(s, "input_audio_buffer.speech_started")
          /\ InFlight(s)
          /\ connState[s] = "open" )
        => /\ twilioOut'[s] = Append(twilioOut[s], ClearMsg(streamSid[s]))
           /\ markQueue'[s] = <<>>]_vars

====
